---- MODULE Spec2Model ----
(***************************************************************************)
(* A model of flojoy-python: the WindowsWorker (src/flojoy/rq_worker.py),  *)
(* its thread-timer death penalty, the Redis store it drives through a     *)
(* watch/multi/exec pipeline, and, of src/flojoy.py, the parameter         *)
(* resolution of the @flojoy decorator, fetch_inputs and                   *)
(* CtrlPanel.get_state.                                                    *)
(***************************************************************************)
EXTENDS Integers, Sequences, FiniteSets, TLC

\* ------------------------------------------------------------------ bounds
MaxJobs == 2
MaxT == 1
MaxD == 2
MaxTTL == 1
MaxTimerJobs == 1
MaxIds == 2
MaxLen == 3
MaxElems == 2

\* queue_class.DEFAULT_TIMEOUT, used when job.timeout is falsy
DEFAULT_TIMEOUT == 180

Workers == {"w1", "w2"}
Jobs == 1..MaxJobs
NoJob == 0
Timeouts == 0..MaxT          \* 0 stands for "no timeout given" (None)
Durations == 0..MaxD
TTLs == (0 - 1)..MaxTTL
Horizon == IF MaxT > MaxD THEN MaxT ELSE MaxD

VARIABLES
    redis,      \* the shared store: queue, job hashes, dependents sets, worker hashes, watches
    nextId,     \* next job identifier the client will create
    jobTimeout, \* job.timeout
    jobTTL,     \* job.result_ttl
    jobDep,     \* the job this job depends on (NoJob: none)
    pc,         \* each worker's position in work / perform_job
    wjob,       \* the job a worker holds
    pipe,       \* each worker's pipeline buffer (commands queued after MULTI)
    resultTtl,  \* perform_job's local result_ttl
    objStatus,  \* job._status of the Job instance the worker holds
    objResult,  \* job._result of that instance
    dur,        \* how long the job function runs
    outcome,    \* whether the job function returns or raises
    elapsed,    \* time since the job's death penalty was armed
    timer,      \* the threading.Timer of the job's death penalty
    exc,        \* the exception perform_job's except clause caught for the job
    ret,        \* what perform_job returned for the job
    logged,     \* level of the result-TTL log line
    handled,    \* number of handle_exception calls for the job
    performed,  \* number of perform_job calls for the job
    isHorse,    \* worker._is_horse
    hist,       \* history: facts about the run the claims refer to
    pm,         \* the parameter manifest: function name -> parameter -> [default]
    userState,  \* what CtrlPanel.get_state() returned: function name -> parameter -> value
    FN,         \* func.__name__ of the decorated function
    funcParams, \* the parameters the decorator passes to the function
    decoPc,     \* position of the decorator's inner(), of fetch_inputs or of get_state
    previous_job_ids, \* the identifiers given to fetch_inputs
    mock,       \* the mock argument of fetch_inputs
    stored,     \* what Job.fetch finds for each identifier: its result, or nothing
    nodeInputs, \* the list fetch_inputs returned
    elems       \* fc['elements'] of the control-panel state file

workerVars == <<redis, nextId, jobTimeout, jobTTL, jobDep, pc, wjob, pipe, resultTtl,
                objStatus, objResult, dur, outcome, elapsed, timer, exc, ret, logged,
                handled, performed, isHorse, hist>>

decoVars == <<pm, userState, FN, funcParams, decoPc, previous_job_ids, mock, stored,
              nodeInputs, elems>>

vars == <<workerVars, decoVars>>

\* ------------------------------------------------------------------ the store
NoEntry == [exists |-> FALSE, status |-> "none", result |-> "none", expire |-> 0 - 1]

RedisInit ==
    [queue      |-> <<>>,
     jobs       |-> [j \in Jobs |-> NoEntry],
     dependents |-> [j \in Jobs |-> {}],
     current    |-> [w \in Workers |-> NoJob],
     success    |-> [w \in Workers |-> 0],
     watch      |-> [w \in Workers |-> NoJob],
     dirty      |-> [w \in Workers |-> FALSE]]

\* a write to the dependents key of job j invalidates every WATCH on it
Touch(r, j) ==
    [r EXCEPT !.dirty = [w \in Workers |-> r.dirty[w] \/ r.watch[w] = j]]

\* one Redis command applied to the store
Apply(r, c) ==
    CASE c.op = "rpush" ->
            [r EXCEPT !.queue = Append(r.queue, c.job)]
      [] c.op = "hset_status" ->
            [r EXCEPT !.jobs[c.job].exists = TRUE, !.jobs[c.job].status = c.status]
      [] c.op = "hset_job" ->
            [r EXCEPT !.jobs[c.job].exists = TRUE,
                      !.jobs[c.job].status = c.status,
                      !.jobs[c.job].result = c.result]
      [] c.op = "expire" ->
            IF r.jobs[c.job].exists
            THEN [r EXCEPT !.jobs[c.job].expire = c.ttl]
            ELSE r
      [] c.op = "del_job" ->
            Touch([r EXCEPT !.jobs[c.job] = NoEntry, !.dependents[c.job] = {}], c.job)
      [] c.op = "del_dependents" ->
            Touch([r EXCEPT !.dependents[c.job] = {}], c.job)
      [] c.op = "sadd_dependents" ->
            Touch([r EXCEPT !.dependents[c.job] = @ \cup {c.member}], c.job)
      [] c.op = "hset_current" ->
            [r EXCEPT !.current[c.worker] = c.job]
      [] c.op = "hdel_current" ->
            [r EXCEPT !.current[c.worker] = NoJob]
      [] c.op = "hincrby_success" ->
            [r EXCEPT !.success[c.worker] = @ + 1]
      [] OTHER -> r

RECURSIVE ApplyAll(_, _)
ApplyAll(r, cmds) ==
    IF cmds = <<>> THEN r ELSE ApplyAll(Apply(r, Head(cmds)), Tail(cmds))

\* a command issued on a pipeline after MULTI is queued until EXEC
Queued(s, c) == [s EXCEPT !.buf = Append(s.buf, c)]
\* a command issued on the plain connection takes effect at once
Direct(s, c) == [s EXCEPT !.redis = Apply(s.redis, c)]

\* ------------------------------------------------------------------ jobs
\* the value the job function of job j returns
RV(j) == <<"rv", j>>

\* timeout = job.timeout or self.queue_class.DEFAULT_TIMEOUT
EffectiveTimeout(t) == IF t = 0 THEN DEFAULT_TIMEOUT ELSE t

\* job.get_result_ttl(self.default_result_ttl)
get_result_ttl(j) == jobTTL[j]

RECURSIVE SetToSeq(_)
SetToSeq(S) ==
    IF S = {} THEN <<>>
    ELSE LET m == CHOOSE x \in S : \A y \in S : x <= y
         IN <<m>> \o SetToSeq(S \ {m})

\* ------------------------------------------------------------------ death penalty
NoError == [type |-> "none", args |-> [x \in {} |-> 0]]

NoTimer == [pc |-> "none", finished |-> FALSE, ref |-> FALSE,
            timeout |-> 0, exception |-> "none", error |-> NoError]

\* self.death_penalty_class(timeout, JobTimeoutException, job_id=job.id):
\* BaseDeathPenalty.__init__ keeps the timeout and the exception class; job_id goes
\* into **kwargs, which nothing reads; __init__ sets self._timer = None
WindowsSignalDeathPenalty(timeout, exception, job_id) ==
    [pc |-> "none", finished |-> FALSE, ref |-> FALSE,
     timeout |-> timeout, exception |-> exception, error |-> NoError]

\* a timer that is started without being kept in self._timer
setup_death_penalty_unkept(tm) ==
    [tm EXCEPT !.pc = "waiting", !.finished = FALSE, !.ref = FALSE]

\* self._timer = threading.Timer(self._timeout, self.handle_death_penalty); start()
setup_death_penalty(tm) == [tm EXCEPT !.pc = "waiting", !.finished = FALSE, !.ref = TRUE]

\* a cancel that leaves the timer running
cancel_death_penalty_noop(tm) == tm

\* if self._timer: self._timer.cancel()   (Timer.cancel sets the finished event)
cancel_death_penalty(tm) == IF tm.ref THEN [tm EXCEPT !.finished = TRUE] ELSE tm

\* raise self._exception("Task exceeded maximum timeout value ({0} seconds)"
\* .format(self._timeout)): raised in the thread that calls it, the timer thread,
\* which ends with it; the message is built from the timeout alone
handle_death_penalty(tm) ==
    [tm EXCEPT !.pc = "raised",
               !.error = [type |-> tm.exception, args |-> [timeout |-> tm.timeout]]]

\* ------------------------------------------------------------------ success batch
\* Queue.enqueue_job on a pipeline: status QUEUED, push on the queue
RECURSIVE EnqueueCmds(_)
EnqueueCmds(ds) ==
    IF ds = <<>> THEN <<>>
    ELSE <<[op |-> "hset_status", job |-> Head(ds), status |-> "QUEUED"],
           [op |-> "rpush", job |-> Head(ds)]>> \o EnqueueCmds(Tail(ds))

RECURSIVE QueuedAll(_, _)
QueuedAll(s, cmds) ==
    IF cmds = <<>> THEN s ELSE QueuedAll(Queued(s, Head(cmds)), Tail(cmds))

\* enqueue_dependents without MULTI: every command takes effect as it is issued
RECURSIVE DirectAll(_, _)
DirectAll(s, cmds) ==
    IF cmds = <<>> THEN s ELSE DirectAll(Direct(s, Head(cmds)), Tail(cmds))

enqueue_dependents_direct(s, j) ==
    LET ds == SetToSeq(s.redis.dependents[j])
    IN Direct(DirectAll(s, EnqueueCmds(ds)), [op |-> "del_dependents", job |-> j])

\* queue.enqueue_dependents(job, pipeline=pipeline): reads the dependents set,
\* calls MULTI, queues the enqueue of each dependent and the delete of the set
enqueue_dependents(s, j) ==
    LET ds == SetToSeq(s.redis.dependents[j])
    IN Queued(QueuedAll(s, EnqueueCmds(ds)), [op |-> "del_dependents", job |-> j])

\* set_current_job_id called without the pipeline
set_current_job_id_direct(s, w) == Direct(s, [op |-> "hdel_current", worker |-> w])

\* self.set_current_job_id(None, pipeline=pipeline)
set_current_job_id(s, w) == Queued(s, [op |-> "hdel_current", worker |-> w])

\* increment_successful_job_count called without the pipeline
increment_successful_job_count_direct(s, w) ==
    Direct(s, [op |-> "hincrby_success", worker |-> w])

\* self.increment_successful_job_count(pipeline=pipeline)
increment_successful_job_count(s, w) ==
    Queued(s, [op |-> "hincrby_success", worker |-> w])

\* if result_ttl != 0: job.save(pipeline=pipeline, include_meta=False)
save(s, j, ttl, status, result) ==
    IF ttl # 0
    THEN Queued(s, [op |-> "hset_job", job |-> j, status |-> status, result |-> result])
    ELSE s

\* a cleanup that sets no expiry
cleanup_no_expire(s, j, ttl) ==
    IF ttl = 0 THEN Queued(s, [op |-> "del_job", job |-> j]) ELSE s

\* job.cleanup(result_ttl, pipeline=pipeline, remove_from_queue=False)
cleanup(s, j, ttl) ==
    IF ttl = 0 THEN Queued(s, [op |-> "del_job", job |-> j])
    ELSE IF ttl > 0 THEN Queued(s, [op |-> "expire", job |-> j, ttl |-> ttl])
    ELSE s

\* the log line perform_job ends with
TtlLog(ttl) ==
    IF ttl = 0 THEN [level |-> "info", msg |-> "discarded", seconds |-> 0]
    ELSE IF ttl > 0 THEN [level |-> "info", msg |-> "kept", seconds |-> ttl]
    ELSE [level |-> "warning", msg |-> "never expires", seconds |-> 0]

NoLog == [level |-> "none", msg |-> "none", seconds |-> 0]

\* ------------------------------------------------------------------ initial state
HistInit ==
    [cancelBeforeFire |-> {},   \* jobs whose timer was cancelled before it tested its event
     raisedInBody  |-> {},   \* jobs whose timer raised while the job function was running
     everQueued    |-> {},   \* jobs that have been pushed on the queue
     execOk        |-> [w \in Workers |-> 0]]   \* success batches each worker committed

WorkerInit ==
    /\ redis = RedisInit
    /\ nextId = 1
    /\ jobTimeout = [j \in Jobs |-> 0]
    /\ jobTTL = [j \in Jobs |-> 0]
    /\ jobDep = [j \in Jobs |-> NoJob]
    /\ pc = [w \in Workers |-> "idle"]
    /\ wjob = [w \in Workers |-> NoJob]
    /\ pipe = [w \in Workers |-> <<>>]
    /\ resultTtl = [w \in Workers |-> 0]
    /\ objStatus = [j \in Jobs |-> "none"]
    /\ objResult = [j \in Jobs |-> "none"]
    /\ dur = [j \in Jobs |-> 0]
    /\ outcome = [j \in Jobs |-> "none"]
    /\ elapsed = [j \in Jobs |-> 0]
    /\ timer = [j \in Jobs |-> NoTimer]
    /\ exc = [j \in Jobs |-> "none"]
    /\ ret = [j \in Jobs |-> "none"]
    /\ logged = [j \in Jobs |-> NoLog]
    /\ handled = [j \in Jobs |-> 0]
    /\ performed = [j \in Jobs |-> 0]
    /\ isHorse = [w \in Workers |-> FALSE]
    /\ hist = HistInit

EmptyMap == [x \in {} |-> 0]

\* identifiers of predecessor jobs, and what the store holds for them
JobIds == 1..MaxIds
Results == {"xa", "xb"}
Missing == "missing"
MockXY == "VectorXY(linspace(0,10,100))"

BoundedSeq(S, n) == UNION {[1..k -> S] : k \in 0..n}

\* no call of fetch_inputs or get_state under way
DecoIdle ==
    /\ previous_job_ids = <<>>
    /\ mock = FALSE
    /\ stored = [i \in JobIds |-> Missing]
    /\ nodeInputs = <<>>
    /\ elems = <<>>

\* the worker system starts with the decorator not in use
Init ==
    /\ WorkerInit
    /\ pm = EmptyMap
    /\ userState = EmptyMap
    /\ FN = "SINE"
    /\ funcParams = EmptyMap
    /\ decoPc = "off"
    /\ DecoIdle

\* ------------------------------------------------------------------ the client
\* A client enqueues a new job, possibly depending on an existing one. A dependency
\* that is not FINISHED defers the job: it is added to the dependents set the worker
\* watches; otherwise the job goes on the queue.
ClientEnqueue(t, ttl, dep) ==
    /\ nextId <= MaxJobs
    /\ dep # NoJob => (dep < nextId /\ redis.jobs[dep].exists)
    /\ LET j == nextId
           ready == dep = NoJob \/ redis.jobs[dep].status = "FINISHED"
       IN /\ redis' =
                IF ready
                THEN ApplyAll(redis, <<[op |-> "hset_status", job |-> j, status |-> "QUEUED"],
                                       [op |-> "rpush", job |-> j]>>)
                ELSE ApplyAll(redis, <<[op |-> "hset_status", job |-> j, status |-> "DEFERRED"],
                                       [op |-> "sadd_dependents", job |-> dep, member |-> j]>>)
          /\ hist' = IF ready THEN [hist EXCEPT !.everQueued = @ \cup {j}] ELSE hist
          /\ jobTimeout' = [jobTimeout EXCEPT ![j] = t]
          /\ jobTTL' = [jobTTL EXCEPT ![j] = ttl]
          /\ jobDep' = [jobDep EXCEPT ![j] = dep]
    /\ nextId' = nextId + 1
    /\ UNCHANGED decoVars
    /\ UNCHANGED <<pc, wjob, pipe, resultTtl, objStatus, objResult, dur, outcome,
                   elapsed, timer, exc, ret, logged, handled, performed, isHorse>>

\* a key with an expiry is removed by the store when its time is up
ExpireKey(j) ==
    /\ redis.jobs[j].exists
    /\ redis.jobs[j].expire > 0
    /\ redis' = [redis EXCEPT !.jobs[j] = NoEntry]
    /\ UNCHANGED decoVars
    /\ UNCHANGED <<nextId, jobTimeout, jobTTL, jobDep, pc, wjob, pipe, resultTtl,
                   objStatus, objResult, dur, outcome, elapsed, timer, exc, ret,
                   logged, handled, performed, isHorse, hist>>

\* ------------------------------------------------------------------ the worker
\* a read of the head that leaves it on the queue
PeekQueue(q) == q

\* the queue after the worker's pop (LPOP removes the head)
PopQueue(q) == Tail(q)

\* work(): pop the next job, load it from the store and hand it to
\* execute_job -> main_work_horse
Dequeue(w) ==
    /\ pc[w] = "idle"
    /\ redis.queue # <<>>
    /\ wjob' = [wjob EXCEPT ![w] = Head(redis.queue)]
    /\ redis' = [redis EXCEPT !.queue = PopQueue(redis.queue)]
    /\ isHorse' = [isHorse EXCEPT ![w] = TRUE]
    /\ objStatus' = [objStatus EXCEPT ![Head(redis.queue)] = redis.jobs[Head(redis.queue)].status]
    /\ pc' = [pc EXCEPT ![w] = "popped"]
    /\ UNCHANGED decoVars
    /\ UNCHANGED <<nextId, jobTimeout, jobTTL, jobDep, pipe, resultTtl,
                   objResult, dur, outcome, elapsed, timer, exc, ret, logged, handled,
                   performed, hist>>

\* perform_job up to the call of job.perform(): prepare_job_execution (current job
\* marker and status STARTED, one pipeline), then the death penalty is armed
StartWith(w, Ds) ==
    /\ pc[w] = "popped"
    /\ LET j == wjob[w]
       IN /\ redis' = ApplyAll(redis, <<[op |-> "hset_current", worker |-> w, job |-> j],
                                        [op |-> "hset_status", job |-> j, status |-> "STARTED"]>>)
          /\ objStatus' = [objStatus EXCEPT ![j] = "STARTED"]
          /\ objResult' = [objResult EXCEPT ![j] = "none"]
          /\ performed' = [performed EXCEPT ![j] = @ + 1]
          /\ timer' = [timer EXCEPT ![j] =
                          setup_death_penalty(
                              WindowsSignalDeathPenalty(EffectiveTimeout(jobTimeout[j]),
                                                        "JobTimeoutException", j))]
          /\ elapsed' = [elapsed EXCEPT ![j] = 0]
          /\ \E d \in Ds, o \in {"return", "raise"} :
                /\ dur' = [dur EXCEPT ![j] = d]
                /\ outcome' = [outcome EXCEPT ![j] = o]
    /\ pc' = [pc EXCEPT ![w] = "body"]
    /\ UNCHANGED decoVars
    /\ UNCHANGED <<nextId, jobTimeout, jobTTL, jobDep, wjob, pipe, resultTtl, exc, ret,
                   logged, handled, isHorse, hist>>

Start(w) == StartWith(w, Durations)

\* a job function that ends at once
StartNow(w) == StartWith(w, {0})

InBody(j) == \E w \in Workers : pc[w] = "body" /\ wjob[w] = j

\* A time unit passes for job j, while its function runs or while its cancelled
\* timer still waits. Threads take no time: a timer whose interval is over wakes,
\* tests its event and calls its function before more time passes, in any order
\* with the steps of the worker.
Tick(j) ==
    /\ ~(timer[j].pc = "waiting" /\ ~timer[j].finished
            /\ elapsed[j] >= EffectiveTimeout(jobTimeout[j]))
    /\ timer[j].pc \notin {"woke", "run"}
    /\ \/ \E w \in Workers : pc[w] = "body" /\ wjob[w] = j /\ elapsed[j] < dur[j]
       \/ /\ ~InBody(j)
          /\ timer[j].pc = "waiting"
          /\ EffectiveTimeout(jobTimeout[j]) <= Horizon
          /\ elapsed[j] < EffectiveTimeout(jobTimeout[j])
    /\ elapsed' = [elapsed EXCEPT ![j] = @ + 1]
    /\ UNCHANGED decoVars
    /\ UNCHANGED <<redis, nextId, jobTimeout, jobTTL, jobDep, pc, wjob, pipe, resultTtl,
                   objStatus, objResult, dur, outcome, timer, exc, ret, logged, handled,
                   performed, isHorse, hist>>

\* Timer.run: finished.wait(interval) returns, the event set or the interval over
TimerWake(j) ==
    /\ timer[j].pc = "waiting"
    /\ timer[j].finished \/ elapsed[j] >= EffectiveTimeout(jobTimeout[j])
    /\ timer' = [timer EXCEPT ![j].pc = "woke"]
    /\ UNCHANGED decoVars
    /\ UNCHANGED <<redis, nextId, jobTimeout, jobTTL, jobDep, pc, wjob, pipe, resultTtl,
                   objStatus, objResult, dur, outcome, elapsed, exc, ret, logged,
                   handled, performed, isHorse, hist>>

\* Timer.run: if not self.finished.is_set(): call the function
TimerCheck(j) ==
    /\ timer[j].pc = "woke"
    /\ timer' = [timer EXCEPT ![j].pc = IF timer[j].finished THEN "done" ELSE "run"]
    /\ UNCHANGED decoVars
    /\ UNCHANGED <<redis, nextId, jobTimeout, jobTTL, jobDep, pc, wjob, pipe, resultTtl,
                   objStatus, objResult, dur, outcome, elapsed, exc, ret, logged,
                   handled, performed, isHorse, hist>>

\* the timer thread calls handle_death_penalty, which raises in the timer thread;
\* nothing of the worker's thread changes
TimerCall(j) ==
    /\ timer[j].pc = "run"
    /\ timer' = [timer EXCEPT ![j] = handle_death_penalty(timer[j])]
    /\ hist' = IF InBody(j) THEN [hist EXCEPT !.raisedInBody = @ \cup {j}] ELSE hist
    /\ UNCHANGED decoVars
    /\ UNCHANGED <<redis, nextId, jobTimeout, jobTTL, jobDep, pc, wjob, pipe, resultTtl,
                   objStatus, objResult, dur, outcome, elapsed, exc, ret, logged,
                   handled, performed, isHorse>>

\* job.perform() ends after dur; the with block exits (cancel_death_penalty); on a
\* normal return the result and status FINISHED are set on the job object
BodyEnd(w) ==
    /\ pc[w] = "body"
    /\ LET j == wjob[w]
       IN /\ elapsed[j] = dur[j]
          /\ timer' = [timer EXCEPT ![j] = cancel_death_penalty(timer[j])]
          /\ hist' = IF timer[j].pc \in {"waiting", "woke"}
                     THEN [hist EXCEPT !.cancelBeforeFire = @ \cup {j}]
                     ELSE hist
          /\ IF outcome[j] = "raise"
             THEN /\ exc' = [exc EXCEPT ![j] = "func"]
                  /\ pc' = [pc EXCEPT ![w] = "except"]
                  /\ UNCHANGED <<objStatus, objResult>>
             ELSE /\ objResult' = [objResult EXCEPT ![j] = RV(j)]
                  /\ objStatus' = [objStatus EXCEPT ![j] = "FINISHED"]
                  /\ pc' = [pc EXCEPT ![w] = "success"]
                  /\ exc' = exc
    /\ UNCHANGED decoVars
    /\ UNCHANGED <<redis, nextId, jobTimeout, jobTTL, jobDep, wjob, pipe, resultTtl, dur,
                   outcome, elapsed, ret, logged, handled, performed, isHorse>>

\* with self.connection.pipeline(): watch the dependents key, then queue the batch
BuildBatch(w) ==
    /\ pc[w] = "success"
    /\ LET j   == wjob[w]
           ttl == get_result_ttl(j)
           s0  == [redis |-> [redis EXCEPT !.watch[w] = j, !.dirty[w] = FALSE],
                   buf |-> <<>>]
           s1  == enqueue_dependents(s0, j)
           s2  == set_current_job_id(s1, w)
           s3  == increment_successful_job_count(s2, w)
           s4  == save(s3, j, ttl, objStatus[j], objResult[j])
           s5  == cleanup(s4, j, ttl)
       IN /\ redis' = s5.redis
          /\ pipe' = [pipe EXCEPT ![w] = s5.buf]
          /\ resultTtl' = [resultTtl EXCEPT ![w] = ttl]
    /\ pc' = [pc EXCEPT ![w] = "exec"]
    /\ UNCHANGED decoVars
    /\ UNCHANGED <<nextId, jobTimeout, jobTTL, jobDep, wjob, objStatus, objResult, dur,
                   outcome, elapsed, timer, exc, ret, logged, handled, performed,
                   isHorse, hist>>

Unwatch(r, w) == [r EXCEPT !.watch[w] = NoJob, !.dirty[w] = FALSE]

\* pipeline.execute(): EXEC applies the queued commands as one step, or raises
\* WatchError when the watched key was written since WATCH. After a commit
\* perform_job logs the result-TTL line and returns True.
Execute(w) ==
    /\ pc[w] = "exec"
    /\ LET j == wjob[w]
       IN IF redis.dirty[w]
          THEN /\ redis' = Unwatch(redis, w)
               /\ exc' = [exc EXCEPT ![j] = "watch"]
               /\ pc' = [pc EXCEPT ![w] = "except"]
               /\ UNCHANGED <<ret, logged, isHorse, hist>>
          ELSE /\ redis' = ApplyAll(Unwatch(redis, w), pipe[w])
               /\ hist' = [hist EXCEPT
                             !.execOk[w] = @ + 1,
                             !.everQueued = @ \cup
                                {c.job : c \in {pipe[w][i] : i \in 1..Len(pipe[w])}
                                                \cap {x \in {pipe[w][i] : i \in 1..Len(pipe[w])} :
                                                        x.op = "rpush"}}]
               /\ ret' = [ret EXCEPT ![j] = "True"]
               /\ logged' = [logged EXCEPT ![j] = TtlLog(resultTtl[w])]
               /\ isHorse' = [isHorse EXCEPT ![w] = FALSE]
               /\ pc' = [pc EXCEPT ![w] = "idle"]
               /\ exc' = exc
    /\ pipe' = [pipe EXCEPT ![w] = <<>>]
    /\ UNCHANGED decoVars
    /\ UNCHANGED <<nextId, jobTimeout, jobTTL, jobDep, wjob, resultTtl, objStatus,
                   objResult, dur, outcome, elapsed, timer, handled, performed>>

\* an except clause that puts the failed job back on the queue
ExceptRetry(w) ==
    /\ pc[w] = "except"
    /\ LET j == wjob[w]
       IN /\ objStatus' = [objStatus EXCEPT ![j] = "FAILED"]
          /\ redis' = ApplyAll(redis, <<[op |-> "hset_status", job |-> j, status |-> "FAILED"],
                                       [op |-> "rpush", job |-> j]>>)
          /\ handled' = [handled EXCEPT ![j] = @ + 1]
          /\ ret' = [ret EXCEPT ![j] = "False"]
    /\ isHorse' = [isHorse EXCEPT ![w] = FALSE]
    /\ pc' = [pc EXCEPT ![w] = "idle"]
    /\ UNCHANGED decoVars
    /\ UNCHANGED <<nextId, jobTimeout, jobTTL, jobDep, wjob, pipe, resultTtl, objResult,
                   dur, outcome, elapsed, timer, exc, logged, performed, hist>>

\* except Exception: job.status = FAILED (written to the store at once),
\* handle_exception, return False
Except(w) ==
    /\ pc[w] = "except"
    /\ LET j == wjob[w]
       IN /\ objStatus' = [objStatus EXCEPT ![j] = "FAILED"]
          /\ redis' = Apply(redis, [op |-> "hset_status", job |-> j, status |-> "FAILED"])
          /\ handled' = [handled EXCEPT ![j] = @ + 1]
          /\ ret' = [ret EXCEPT ![j] = "False"]
    /\ isHorse' = [isHorse EXCEPT ![w] = FALSE]
    /\ pc' = [pc EXCEPT ![w] = "idle"]
    /\ UNCHANGED decoVars
    /\ UNCHANGED <<nextId, jobTimeout, jobTTL, jobDep, wjob, pipe, resultTtl, objResult,
                   dur, outcome, elapsed, timer, exc, logged, performed, hist>>

\* ------------------------------------------------------------------ the decorator
FnNames == {"SINE", "ADD"}
ManifestParams == {"frequency", "amplitude"}
UserParams == ManifestParams \cup {"offset"}
Values == {1, 5}

PartialMaps(K, V) == UNION {[S -> V] : S \in SUBSET K}

Put(f, k, v) == [x \in DOMAIN f \cup {k} |-> IF x = k THEN v ELSE f[x]]

\* for param in pm[FN]: default_params[param] = pm[FN][param]['default']
DefaultParams(m, fn) == [p \in DOMAIN m[fn] |-> m[fn][p].default]

\* func_params = user_set_parameters[FN] if FN in user_set_parameters else default_params
InitialFuncParams(u, fn, dp) == IF fn \in DOMAIN u THEN u[fn] ELSE dp

\* a fill that lets the default win over the user's value
FillKeyOverwrite(fp, dp, k) == Put(fp, k, dp[k])

\* if key not in func_params.keys(): func_params[key] = default_params[key]
FillKey(fp, dp, k) == IF k \notin DOMAIN fp THEN Put(fp, k, dp[k]) ELSE fp

\* for key in default_params.keys(): ...
RECURSIVE FillDefaults(_, _, _)
FillDefaults(fp, dp, keys) ==
    IF keys = {} THEN fp
    ELSE LET k == CHOOSE x \in keys : TRUE
         IN FillDefaults(FillKey(fp, dp, k), dp, keys \ {k})

\* the loop of fetch_inputs inside its try block: Job.fetch raises for an identifier
\* the store does not hold; the except clause prints the traceback and the function
\* goes on to `return inputs` with what the loop had appended
RECURSIVE FetchLoop(_, _, _)
FetchLoop(ids, st, inputs) ==
    IF ids = <<>> THEN inputs
    ELSE IF st[Head(ids)] = Missing THEN inputs
    ELSE FetchLoop(Tail(ids), st, Append(inputs, st[Head(ids)]))

\* fetch_inputs(previous_job_ids, mock)
fetch_inputs(ids, mk, st) == IF mk THEN <<MockXY>> ELSE FetchLoop(ids, st, <<>>)

\* inner(): resolve the parameters, fetch the inputs and call
\* func(node_inputs, func_params); pm[FN] raises KeyError when the manifest has no
\* entry for the function
inner ==
    /\ decoPc = "ready"
    /\ IF FN \notin DOMAIN pm
       THEN /\ decoPc' = "KeyError"
            /\ funcParams' = funcParams
            /\ nodeInputs' = nodeInputs
       ELSE /\ LET dp == DefaultParams(pm, FN)
               IN funcParams' = FillDefaults(InitialFuncParams(userState, FN, dp), dp, DOMAIN dp)
            /\ nodeInputs' = fetch_inputs(previous_job_ids, mock, stored)
            /\ decoPc' = "called"
    /\ UNCHANGED <<pm, userState, FN, previous_job_ids, mock, stored, elems>>
    /\ UNCHANGED workerVars

\* the decorated function called as in the docstring: SINE(previous_job_ids = pj_ids,
\* mock = True)
InitParams ==
    /\ WorkerInit
    /\ pm \in PartialMaps(FnNames, PartialMaps(ManifestParams, [default : Values]))
    /\ userState \in PartialMaps(FnNames, PartialMaps(UserParams, Values))
    /\ FN \in FnNames
    /\ funcParams = EmptyMap
    /\ decoPc = "ready"
    /\ previous_job_ids = <<1, 2>>
    /\ mock = TRUE
    /\ stored = [i \in JobIds |-> Missing]
    /\ nodeInputs = <<>>
    /\ elems = <<>>

NextParams == inner

SpecParams == InitParams /\ [][NextParams]_vars

\* a call of fetch_inputs on its own, for every list of identifiers and every store
FetchInputsCall ==
    /\ decoPc = "fetch"
    /\ nodeInputs' = fetch_inputs(previous_job_ids, mock, stored)
    /\ decoPc' = "fetched"
    /\ UNCHANGED <<pm, userState, FN, funcParams, previous_job_ids, mock, stored, elems>>
    /\ UNCHANGED workerVars

InitFetch ==
    /\ WorkerInit
    /\ pm = EmptyMap
    /\ userState = EmptyMap
    /\ FN = "SINE"
    /\ funcParams = EmptyMap
    /\ decoPc = "fetch"
    /\ previous_job_ids \in BoundedSeq(JobIds, MaxLen)
    /\ mock \in BOOLEAN
    /\ stored \in [JobIds -> Results \cup {Missing}]
    /\ nodeInputs = <<>>
    /\ elems = <<>>

NextFetch == FetchInputsCall

SpecFetch == InitFetch /\ [][NextFetch]_vars

\* ------------------------------------------------------------------ the control panel
\* An element identifier is a string, here a sequence of characters, so that
\* split('-') has something to split.
ElemIds ==
    {<<"S">>, <<"S", "-", "1">>, <<"S", "-", "2">>, <<"A", "-", "1">>,
     <<"S", "-", "1", "-", "2">>, <<"-", "S">>}

CtrlMaps == PartialMaps({"frequency"}, Values)

\* a node of the flow chart: id and data, data with or without ctrls
NodeElems ==
    {[id |-> i, data |-> d] :
        i \in ElemIds, d \in {EmptyMap} \cup {[ctrls |-> c] : c \in CtrlMaps}}

\* an edge of the flow chart: it has a 'source' key
EdgeElems ==
    {[id |-> i, source |-> "S-1", data |-> [ctrls |-> c]] :
        i \in ElemIds, c \in {[frequency |-> 1]}}
    \cup {[id |-> i, source |-> "S-1"] : i \in ElemIds}

Elements == NodeElems \cup EdgeElems

\* s.split('-')[0]
RECURSIVE SplitFirst(_)
SplitFirst(s) ==
    IF s = <<>> THEN <<>>
    ELSE IF Head(s) = "-" THEN <<>>
    ELSE <<Head(s)>> \o SplitFirst(Tail(s))

\* an assignment that keeps the entry a label already has
SetItemFirstWins(d, label, ctrls) == IF label \in DOMAIN d THEN d ELSE Put(d, label, ctrls)

\* ctrls_dict[label] = ctrls
SetItem(d, label, ctrls) == Put(d, label, ctrls)

\* for i in range(len(elems)): el = elems[i]; if 'source' not in el: ...
RECURSIVE GetStateLoop(_, _)
GetStateLoop(es, d) ==
    IF es = <<>> THEN d
    ELSE LET el == Head(es)
         IN IF "source" \notin DOMAIN el
            THEN LET data  == el.data
                     ctrls == IF "ctrls" \in DOMAIN data THEN data.ctrls ELSE EmptyMap
                     label == SplitFirst(el.id)
                 IN GetStateLoop(Tail(es), SetItem(d, label, ctrls))
            ELSE GetStateLoop(Tail(es), d)

\* CtrlPanel.get_state(), from fc['elements'] on
get_state(es) == GetStateLoop(es, EmptyMap)

\* a call of get_state on its own, for every elements list
GetStateCall ==
    /\ decoPc = "panel"
    /\ userState' = get_state(elems)
    /\ decoPc' = "state"
    /\ UNCHANGED <<pm, FN, funcParams, previous_job_ids, mock, stored, nodeInputs, elems>>
    /\ UNCHANGED workerVars

InitPanel ==
    /\ WorkerInit
    /\ pm = EmptyMap
    /\ userState = EmptyMap
    /\ FN = "SINE"
    /\ funcParams = EmptyMap
    /\ decoPc = "panel"
    /\ previous_job_ids = <<>>
    /\ mock = FALSE
    /\ stored = [i \in JobIds |-> Missing]
    /\ nodeInputs = <<>>
    /\ elems \in BoundedSeq(Elements, MaxElems)

NextPanel == GetStateCall

SpecPanel == InitPanel /\ [][NextPanel]_vars

Next ==
    \/ \E t \in Timeouts, ttl \in TTLs, dep \in {NoJob} \cup Jobs : ClientEnqueue(t, ttl, dep)
    \/ \E j \in Jobs : ExpireKey(j)
    \/ \E w \in Workers : Dequeue(w)
    \/ \E w \in Workers : Start(w)
    \/ \E j \in Jobs : Tick(j)
    \/ \E j \in Jobs : TimerWake(j)
    \/ \E j \in Jobs : TimerCheck(j)
    \/ \E j \in Jobs : TimerCall(j)
    \/ \E w \in Workers : BodyEnd(w)
    \/ \E w \in Workers : BuildBatch(w)
    \/ \E w \in Workers : Execute(w)
    \/ \E w \in Workers : Except(w)

Spec == Init /\ [][Next]_vars

\* The workers and the store without the timer threads. A timer thread writes only
\* `timer` and hist.raisedInBody and no worker reads either, so the store sees the
\* same runs; job functions end at once and every job has the same timeout.
NextStore ==
    \/ \E ttl \in TTLs, dep \in {NoJob} \cup Jobs : ClientEnqueue(MaxT, ttl, dep)
    \/ \E j \in Jobs : ExpireKey(j)
    \/ \E w \in Workers : Dequeue(w)
    \/ \E w \in Workers : StartNow(w)
    \/ \E w \in Workers : BodyEnd(w)
    \/ \E w \in Workers : BuildBatch(w)
    \/ \E w \in Workers : Execute(w)
    \/ \E w \in Workers : Except(w)

SpecStore == Init /\ [][NextStore]_vars

\* One worker with the timer threads of its jobs; MaxTimerJobs jobs, none with a
\* dependency.
TheWorker == CHOOSE w \in Workers : TRUE

NextTimer ==
    \/ \E t \in Timeouts, ttl \in TTLs : nextId <= MaxTimerJobs /\ ClientEnqueue(t, ttl, NoJob)
    \/ Dequeue(TheWorker)
    \/ Start(TheWorker)
    \/ \E j \in Jobs : Tick(j)
    \/ \E j \in Jobs : TimerWake(j)
    \/ \E j \in Jobs : TimerCheck(j)
    \/ \E j \in Jobs : TimerCall(j)
    \/ BodyEnd(TheWorker)
    \/ BuildBatch(TheWorker)
    \/ Execute(TheWorker)
    \/ Except(TheWorker)

SpecTimer == Init /\ [][NextTimer]_vars

\* the steps of the worker and of the timer threads, which the interpreter keeps
\* scheduling: none of them waits for anything but the passing of time
WorkerSteps ==
    \/ Dequeue(TheWorker)
    \/ Start(TheWorker)
    \/ \E j \in Jobs : Tick(j) \/ TimerWake(j) \/ TimerCheck(j) \/ TimerCall(j)
    \/ BodyEnd(TheWorker)
    \/ BuildBatch(TheWorker)
    \/ Execute(TheWorker)
    \/ Except(TheWorker)

FairSpecTimer == SpecTimer /\ WF_vars(WorkerSteps)

\* ------------------------------------------------------------------ claims
InQueue(q, j) == \E i \in 1..Len(q) : q[i] = j
Returned(j) == ret[j] # "none"

\* C1: a job whose function runs longer than its timeout ends FAILED with a timeout
\* error and perform_job returns False; otherwise it ends FINISHED with the function's
\* return value as its result and perform_job returns True.
C1_TimeoutDecidesOutcome ==
    \A j \in Jobs :
        (Returned(j) /\ outcome[j] = "return") =>
            IF dur[j] > EffectiveTimeout(jobTimeout[j])
            THEN objStatus[j] = "FAILED" /\ exc[j] = "timeout" /\ ret[j] = "False"
            ELSE objStatus[j] = "FINISHED" /\ objResult[j] = RV(j) /\ ret[j] = "True"

\* C2 as stated: a dependent is on the queue only while its prerequisite's stored
\* status is FINISHED and the prerequisite's result is in the store.
C2_ReadyOnlyWhilePersisted ==
    \A d \in Jobs :
        (InQueue(redis.queue, d) /\ jobDep[d] # NoJob) =>
            LET e == redis.jobs[jobDep[d]]
            IN e.exists /\ e.status = "FINISHED" /\ e.result = RV(jobDep[d])

\* C2 amended: the step that puts a dependent on the queue leaves its prerequisite
\* FINISHED with its result set; with a result TTL other than 0 that status and result
\* are in the store in the same step, with result TTL 0 the store holds no entry.
C2_DependentsEnqueuedAtFinish ==
    [][\A d \in Jobs :
          (~InQueue(redis.queue, d) /\ InQueue(redis'.queue, d) /\ jobDep'[d] # NoJob) =>
              LET p == jobDep'[d]
                  e == redis'.jobs[p]
              IN /\ objStatus'[p] = "FINISHED"
                 /\ objResult'[p] = RV(p)
                 /\ jobTTL'[p] # 0 => (e.exists /\ e.status = "FINISHED" /\ e.result = RV(p))
                 /\ jobTTL'[p] = 0 => ~e.exists]_vars

C2_Witness ==
    \E d \in Jobs :
        /\ InQueue(redis.queue, d)
        /\ jobDep[d] # NoJob
        /\ jobTTL[jobDep[d]] # 0
        /\ ret[jobDep[d]] = "True"
        /\ redis.jobs[jobDep[d]].status = "FINISHED"

\* C3: the success batch is all or nothing. While a worker is between WATCH and EXEC
\* the store shows none of the batch (marker still set, status STARTED, counter
\* unchanged, no dependent enqueued); once perform_job returned True it shows all of
\* it; and every registered dependent is either still in the dependents set or has been
\* enqueued, never neither and never both.
C3_AtomicBatch ==
    /\ \A w \in Workers :
          /\ redis.success[w] = hist.execOk[w]
          /\ pc[w] \in {"success", "exec"} =>
                /\ redis.current[w] = wjob[w]
                /\ redis.jobs[wjob[w]].exists
                /\ redis.jobs[wjob[w]].status = "STARTED"
          /\ (pc[w] = "idle" /\ wjob[w] # NoJob /\ ret[wjob[w]] = "True") =>
                redis.current[w] = NoJob
    /\ \A j \in Jobs :
          ret[j] = "True" =>
             /\ redis.dependents[j] = {}
             /\ jobTTL[j] = 0 => ~redis.jobs[j].exists
             /\ redis.jobs[j].exists => redis.jobs[j].status = "FINISHED"
    /\ \A d \in Jobs :
          (d < nextId /\ jobDep[d] # NoJob) =>
             /\ (d \in redis.dependents[jobDep[d]]) # (d \in hist.everQueued)
             /\ d \in hist.everQueued => ret[jobDep[d]] = "True"

C3_Witness ==
    \E w \in Workers :
        /\ pc[w] = "exec"
        /\ redis.dependents[wjob[w]] # {}
        /\ ~redis.dirty[w]
        /\ Len(pipe[w]) >= 5

\* C4: the step that commits a job's success batch leaves no entry for the job when
\* its result TTL is 0, an entry expiring after TTL when TTL > 0, an entry without
\* expiry when TTL < 0, and logs info, info, warning respectively.
C4_ResultTtlPolicy ==
    [][\A w \in Workers :
          (pc[w] = "exec" /\ pc'[w] = "idle") =>
              LET j == wjob[w]
                  ttl == jobTTL[j]
                  e == redis'.jobs[j]
              IN /\ ttl = 0 => (~e.exists /\ logged'[j].level = "info"
                                           /\ logged'[j].msg = "discarded")
                 /\ ttl > 0 => (e.exists /\ e.expire = ttl /\ logged'[j].level = "info"
                                          /\ logged'[j].msg = "kept"
                                          /\ logged'[j].seconds = ttl)
                 /\ ttl < 0 => (e.exists /\ e.expire < 0 /\ logged'[j].level = "warning")]_vars

C4_Witness ==
    \E j1, j2 \in Jobs :
        /\ ret[j1] = "True" /\ jobTTL[j1] = 0 /\ ~redis.jobs[j1].exists
        /\ ret[j2] = "True" /\ jobTTL[j2] > 0 /\ redis.jobs[j2].expire = jobTTL[j2]

\* C5: once cancel_death_penalty was called on a timer that had not fired (the timer
\* thread had not yet found its event unset), the timer never calls
\* handle_death_penalty, so the timeout error is never raised.
C5_CancelPreventsRaise ==
    \A j \in hist.cancelBeforeFire : timer[j].pc \notin {"run", "raised"}

C5_Witness ==
    \E j \in hist.cancelBeforeFire :
        /\ timer[j].pc = "done"
        /\ dur[j] < EffectiveTimeout(jobTimeout[j])
        /\ elapsed[j] >= EffectiveTimeout(jobTimeout[j])

\* C6: a job's status only moves forward, QUEUED -> STARTED -> FINISHED or FAILED,
\* on the job object and in the store; nothing leaves FINISHED or FAILED.
Forward(a, b) ==
    \/ a = b
    \/ <<a, b>> \in {<<"none", "QUEUED">>, <<"none", "DEFERRED">>, <<"DEFERRED", "QUEUED">>,
                     <<"QUEUED", "STARTED">>, <<"STARTED", "FINISHED">>,
                     <<"STARTED", "FAILED">>}

C6_StatusForwardOnly ==
    [][\A j \in Jobs :
          /\ Forward(objStatus[j], objStatus'[j])
          /\ (redis.jobs[j].exists /\ redis'.jobs[j].exists) =>
                Forward(redis.jobs[j].status, redis'.jobs[j].status)]_vars

\* C7: an exception raised while the job executes, by the job function or by the
\* timeout mechanism, ends the job FAILED with one call of the exception handler and
\* perform_job returning False; perform_job returns True exactly when the job ended
\* FINISHED.
C7_ExceptionFailsJob ==
    \A j \in Jobs :
        Returned(j) =>
            /\ (outcome[j] = "raise" \/ j \in hist.raisedInBody) =>
                   (objStatus[j] = "FAILED" /\ handled[j] = 1 /\ ret[j] = "False")
            /\ (ret[j] = "True") <=> (objStatus[j] = "FINISHED")

\* C8: for every job that failed or timed out, execute_job returned, the failure
\* status is in the store, and the worker is free for the next job.
C8_FailureReported ==
    \A j \in Jobs :
        (Returned(j) /\ (outcome[j] = "raise" \/ dur[j] > EffectiveTimeout(jobTimeout[j]))) =>
            /\ redis.jobs[j].status = "FAILED"
            /\ \A w \in Workers : wjob[w] = j => ~isHorse[w]

\* the part of C8 that does not rest on the timeout: under FairSpecTimer every
\* enqueued job is performed until perform_job returns, whatever its outcome
EveryQueuedJobReturns ==
    \A j \in Jobs : (j < nextId) ~> Returned(j)

\* C9: every job is performed at most once, two workers never hold the same job, and
\* a job a worker holds is no longer on the queue.
Busy(w) == pc[w] # "idle"

C9_ExactlyOneWorker ==
    /\ \A j \in Jobs : performed[j] <= 1
    /\ \A w1, w2 \in Workers : (w1 # w2 /\ Busy(w1) /\ Busy(w2)) => wjob[w1] # wjob[w2]
    /\ \A w \in Workers : Busy(w) => ~InQueue(redis.queue, wjob[w])
    /\ \A i, k \in 1..Len(redis.queue) : redis.queue[i] = redis.queue[k] => i = k

C9_Witness ==
    \E w1, w2 \in Workers :
        /\ w1 # w2
        /\ pc[w1] = "body" /\ pc[w2] = "body"
        /\ performed[wjob[w1]] = 1 /\ performed[wjob[w2]] = 1

\* C10: the parameters passed to the function are the user's value for every
\* parameter in the user state of FN and the manifest default for every manifest
\* parameter of FN absent from it.
UserOf(u, fn) == IF fn \in DOMAIN u THEN u[fn] ELSE EmptyMap

C10_ParameterResolution ==
    decoPc = "called" =>
        LET u == UserOf(userState, FN)
        IN funcParams = [k \in DOMAIN u \cup DOMAIN pm[FN] |->
                            IF k \in DOMAIN u THEN u[k] ELSE pm[FN][k].default]

\* the example of the specification
C10_Witness ==
    /\ decoPc = "called"
    /\ FN = "SINE"
    /\ pm["SINE"] = [frequency |-> [default |-> 1], amplitude |-> [default |-> 1]]
    /\ "SINE" \in DOMAIN userState
    /\ userState["SINE"] = [frequency |-> 5]
    /\ funcParams = [frequency |-> 5, amplitude |-> 1]

\* C11: fetch_inputs raises nothing; when the fetch of any identifier fails it
\* returns the empty list, however many earlier identifiers were fetched; when no
\* fetch fails it returns the stored results in the order of the identifiers.
FetchFails(ids, st) == \E i \in 1..Len(ids) : st[ids[i]] = Missing

C11_EmptyOnAnyFailure ==
    (decoPc = "fetched" /\ ~mock) =>
        IF FetchFails(previous_job_ids, stored)
        THEN nodeInputs = <<>>
        ELSE nodeInputs = [i \in 1..Len(previous_job_ids) |-> stored[previous_job_ids[i]]]

\* what does hold of fetch_inputs: the results of the identifiers before the first
\* failing one, in order, and all of them when none fails
FirstFailure(ids, st) ==
    IF FetchFails(ids, st)
    THEN CHOOSE i \in 1..Len(ids) :
            st[ids[i]] = Missing /\ \A k \in 1..(i - 1) : st[ids[k]] # Missing
    ELSE Len(ids) + 1

FetchedPrefix ==
    (decoPc = "fetched" /\ ~mock) =>
        nodeInputs = [i \in 1..(FirstFailure(previous_job_ids, stored) - 1) |->
                         stored[previous_job_ids[i]]]

\* C12: the worker never retries a job. Once a job's stored status is FAILED, every
\* later step leaves it FAILED in the store and on the job object, leaves the job off
\* the queue and does not perform it again.
C12_NoRetry ==
    [][\A j \in Jobs :
          (redis.jobs[j].exists /\ redis.jobs[j].status = "FAILED") =>
              /\ redis'.jobs[j].exists
              /\ redis'.jobs[j].status = "FAILED"
              /\ objStatus'[j] = "FAILED"
              /\ ~InQueue(redis'.queue, j)
              /\ \A w \in Workers : Busy(w)' => wjob'[w] # j
              /\ performed'[j] = performed[j]]_vars

\* a failed job, still FAILED and performed once when every job has been processed,
\* the queue is empty and the workers are idle
C12_Witness ==
    \E j \in Jobs :
        /\ redis.jobs[j].status = "FAILED"
        /\ performed[j] = 1
        /\ \A k \in Jobs : Returned(k)
        /\ \A v \in Workers : ~Busy(v)
        /\ redis.queue = <<>>

\* the stage of a death-penalty timer: ARMED while its thread waits or has woken with
\* the event unset, CANCELLED once the event is set before the thread tested it,
\* FIRED once the thread found the event unset and goes on to call
\* handle_death_penalty, DISPOSED when the thread has ended
Stage(tm) ==
    CASE tm.pc = "none" -> "NONE"
      [] tm.pc \in {"waiting", "woke"} -> IF tm.finished THEN "CANCELLED" ELSE "ARMED"
      [] tm.pc = "run" -> "FIRED"
      [] OTHER -> "DISPOSED"

BodyOver(j) == performed[j] > 0 /\ ~InBody(j)

\* C13: the timer is armed when job.perform() starts and cancelled on every exit path
\* of the with block: while the function runs its timer exists and is kept, once the
\* function has ended (by return or by exception) the timer's event is set, and after
\* perform_job returned no timer of the job is still armed.
C13_ScopedTimer ==
    \A j \in Jobs :
        /\ performed[j] = 0 => Stage(timer[j]) = "NONE"
        /\ InBody(j) => (timer[j].ref /\ Stage(timer[j]) \in {"ARMED", "FIRED", "DISPOSED"})
        /\ BodyOver(j) => timer[j].finished
        /\ Returned(j) => Stage(timer[j]) \in {"CANCELLED", "FIRED", "DISPOSED"}

\* C13, the life of a timer: it is armed by the step that starts the function, and
\* from ARMED it is either FIRED or CANCELLED, and then DISPOSED
C13_TimerLifecycle ==
    [][\A j \in Jobs :
          \/ Stage(timer'[j]) = Stage(timer[j])
          \/ /\ <<Stage(timer[j]), Stage(timer'[j])>> \in
                    {<<"NONE", "ARMED">>, <<"ARMED", "FIRED">>, <<"ARMED", "CANCELLED">>,
                     <<"FIRED", "DISPOSED">>, <<"CANCELLED", "DISPOSED">>}
             /\ Stage(timer'[j]) = "ARMED" => InBody(j)'
             /\ Stage(timer'[j]) = "CANCELLED" => (InBody(j) /\ ~InBody(j)')]_vars

\* C13 as a whole: the scope of the timer in every state and its life in every step
C13_TimerScopeAndLife == []C13_ScopedTimer /\ C13_TimerLifecycle

\* a job whose function raised before its deadline: perform_job has returned and the
\* cancelled timer thread has ended without calling handle_death_penalty
C13_Witness ==
    \E j \in Jobs :
        /\ outcome[j] = "raise"
        /\ ret[j] = "False"
        /\ dur[j] < EffectiveTimeout(jobTimeout[j])
        /\ timer[j].finished
        /\ timer[j].pc = "done"

\* C14: a timer that fires while the job function runs does not stop it, and the
\* function observes the timeout error at its next check: a function that had time
\* left after the firing (every time unit of the model is such a check) ends with the
\* timeout error, not by running to its end.
C14_BodyObservesTimeout ==
    \A j \in hist.raisedInBody :
        (BodyOver(j) /\ dur[j] > EffectiveTimeout(jobTimeout[j])) => exc[j] = "timeout"

\* the first half of C14: the step in which the timer calls handle_death_penalty
\* changes nothing of the worker that runs the function
FiringLeavesBodyRunning ==
    [][\A j \in Jobs :
          (timer[j].pc = "run" /\ timer'[j].pc = "raised") =>
              /\ pc' = pc /\ wjob' = wjob /\ elapsed' = elapsed
              /\ exc' = exc /\ objStatus' = objStatus]_vars

\* C15: the error the firing timer raises is a JobTimeoutException that carries the
\* configured timeout and the job's identifier, and a job that timed out is recorded
\* as failed with that timeout error, not as a job whose function raised.
C15_TimeoutErrorDistinguished ==
    \A j \in Jobs :
        timer[j].pc = "raised" =>
            LET e == timer[j].error
            IN /\ e.type = "JobTimeoutException"
               /\ "timeout" \in DOMAIN e.args
               /\ e.args["timeout"] = EffectiveTimeout(jobTimeout[j])
               /\ "job_id" \in DOMAIN e.args
               /\ e.args["job_id"] = j
               /\ (Returned(j) /\ j \in hist.raisedInBody) =>
                      (redis.jobs[j].status = "FAILED" /\ exc[j] = "timeout")

\* the part of C15 that holds: the type of the error and the timeout it carries
TimeoutErrorCarriesDuration ==
    \A j \in Jobs :
        timer[j].pc = "raised" =>
            /\ timer[j].error.type = "JobTimeoutException"
            /\ timer[j].error.args = [timeout |-> EffectiveTimeout(jobTimeout[j])]

\* C16: a job whose function returned normally within its timeout ends FINISHED, on
\* the job object and wherever the store holds it, and perform_job returns True, also
\* when the watched dependents key was written between WATCH and EXEC.
C16_ConflictKeepsFinished ==
    \A j \in Jobs :
        (Returned(j) /\ outcome[j] = "return"
                     /\ dur[j] <= EffectiveTimeout(jobTimeout[j])) =>
            /\ objStatus[j] = "FINISHED"
            /\ ret[j] = "True"
            /\ redis.jobs[j].exists => redis.jobs[j].status = "FINISHED"

\* without a write to the watched key the same jobs do end FINISHED
FinishedWithoutConflict ==
    \A j \in Jobs :
        (Returned(j) /\ outcome[j] = "return" /\ exc[j] # "watch") =>
            (objStatus[j] = "FINISHED" /\ ret[j] = "True")

\* C17: once perform_job has returned for a job, with True or with False, no worker's
\* current-job marker in the store names that job.
C17_MarkerCleared ==
    \A j \in Jobs, w \in Workers : Returned(j) => redis.current[w] # j

\* the success path does clear the marker
MarkerClearedOnSuccess ==
    \A j \in Jobs, w \in Workers : ret[j] = "True" => redis.current[w] # j

RECURSIVE SumOver(_, _)
SumOver(f, S) ==
    IF S = {} THEN 0
    ELSE LET x == CHOOSE y \in S : TRUE IN f[x] + SumOver(f, S \ {x})

ReturnsTrue(w) == pc[w] # "idle" /\ pc'[w] = "idle" /\ ret'[wjob[w]] = "True"

\* C18, in every state: the success counters of the workers add up to the number of
\* jobs for which perform_job returned True, all of them FINISHED
C18_CounterTotal ==
    /\ SumOver(redis.success, Workers) = Cardinality({j \in Jobs : ret[j] = "True"})
    /\ \A j \in Jobs : ret[j] = "True" => objStatus[j] = "FINISHED"
    /\ \A j \in Jobs : ret[j] = "False" => objStatus[j] = "FAILED"

\* C18, in every step: a worker's success counter goes up by one in the step in which
\* its perform_job returns True, and is left alone by every other step, among them the
\* return of False after a function error or an aborted success batch
C18_CounterSteps ==
    [][\A w \in Workers :
          IF ReturnsTrue(w)
          THEN redis'.success[w] = redis.success[w] + 1
          ELSE redis'.success[w] = redis.success[w]]_vars

\* C18: a worker's success counter equals the number of its perform_job calls that
\* returned True; it is incremented once for each job that ends FINISHED and never for
\* a job that ends FAILED.
C18_SuccessCounter == []C18_CounterTotal /\ C18_CounterSteps

\* one job ended FINISHED and one FAILED, and only one was counted
C18_Witness ==
    \E j1, j2 \in Jobs :
        /\ ret[j1] = "True" /\ ret[j2] = "False"
        /\ SumOver(redis.success, Workers) = 1

\* the part of an identifier before its first '-', the whole of it when it has none
FirstDash(s) ==
    IF \E i \in 1..Len(s) : s[i] = "-"
    THEN CHOOSE i \in 1..Len(s) : s[i] = "-" /\ \A k \in 1..(i - 1) : s[k] # "-"
    ELSE Len(s) + 1

LabelOf(el) == SubSeq(el.id, 1, FirstDash(el.id) - 1)
CtrlsOf(el) == IF "ctrls" \in DOMAIN el.data THEN el.data.ctrls ELSE EmptyMap
NodeIndexes(es) == {i \in 1..Len(es) : "source" \notin DOMAIN es[i]}

\* C19: get_state returns the mapping whose labels are those of the elements without
\* a 'source' key, each label being the part of the id before the first '-', and
\* whose entry for a label is the ctrls (or the empty mapping) of the last such
\* element with that label; elements with a 'source' key contribute nothing.
C19_GetState ==
    decoPc = "state" =>
        LET N == NodeIndexes(elems)
        IN /\ DOMAIN userState = {LabelOf(elems[i]) : i \in N}
           /\ \A i \in N :
                 (\A k \in N : k > i => LabelOf(elems[k]) # LabelOf(elems[i])) =>
                     userState[LabelOf(elems[i])] = CtrlsOf(elems[i])

\* two nodes with the same label and different ctrls: the second one's are kept
C19_Witness ==
    /\ decoPc = "state"
    /\ Len(elems) = 2
    /\ NodeIndexes(elems) = {1, 2}
    /\ elems[1].id # elems[2].id
    /\ LabelOf(elems[1]) = <<"S">> /\ LabelOf(elems[2]) = <<"S">>
    /\ CtrlsOf(elems[1]) = [frequency |-> 1]
    /\ CtrlsOf(elems[2]) = [frequency |-> 5]
    /\ userState = [l \in {<<"S">>} |-> [frequency |-> 5]]
====
